---------------------------- MODULE Spec2Model ----------------------------
(***************************************************************************)
(* CSG terms (src/csgterm.cc): construction with bounding-box pruning,     *)
(* tree normalization (Goldfeather et al.) and flattening into a chain.    *)
(*                                                                         *)
(* Terms live in a heap: heap[i] is the CSGTerm object with address i and  *)
(* NULL (0) is the empty shared_ptr.  normalize assigns term->left and     *)
(* term->right of existing objects, so the heap is mutated in place.       *)
(***************************************************************************)
EXTENDS Integers, Sequences, FiniteSets, TLC

\* ------------------------------------------------------------------ bounds
\* Largest number of operator nodes of an input expression of normalize.
MaxOps == 3
\* Largest number of createCSGTerm calls of the construction specification.
MaxBuild == 2
\* Largest number of operator nodes of a tree handed to CSGChain::import.
MaxImportOps == 2
\* Largest number of CSGChain::import calls on one chain.
MaxImports == 2
\* Largest number of steps one outermost call of normalize is followed for.
MaxSteps == 60

\* ------------------------------------------------------------------- types
TYPE_PRIMITIVE == "PRIMITIVE"
TYPE_UNION == "UNION"
TYPE_INTERSECTION == "INTERSECTION"
TYPE_DIFFERENCE == "DIFFERENCE"

type_e == {TYPE_PRIMITIVE, TYPE_UNION, TYPE_INTERSECTION, TYPE_DIFFERENCE}

OpTypes == {TYPE_UNION, TYPE_INTERSECTION, TYPE_DIFFERENCE}

\* The empty shared_ptr<CSGTerm>.
NULL == 0

\* ------------------------------------------------------------ bounding box
\* A default-constructed BoundingBox is null (empty); extend() grows a box
\* to contain a point; isNull() says that min exceeds max in some axis.
NullBox == [min |-> <<>>, max |-> <<>>]

Min2(a, b) == IF a <= b THEN a ELSE b

Max2(a, b) == IF a >= b THEN a ELSE b

CwiseMin(p, q) == [i \in DOMAIN p |-> Min2(p[i], q[i])]

CwiseMax(p, q) == [i \in DOMAIN p |-> Max2(p[i], q[i])]

isNull(b) == b = NullBox \/ \E i \in DOMAIN b.min : b.min[i] > b.max[i]

extend(b, p) ==
  IF b = NullBox THEN [min |-> p, max |-> p]
  ELSE [min |-> CwiseMin(b.min, p), max |-> CwiseMax(b.max, p)]

\* The box createCSGTerm tests: max of the mins, min of the maxes.
OverlapBox(lb, rb) == [min |-> CwiseMax(lb.min, rb.min), max |-> CwiseMin(lb.max, rb.max)]

\* ------------------------------------------------------------- primitives
\* The polysets of the model, already transformed: a bounding box and the
\* points of the solid, all inside the box.  A and B touch in a corner,
\* C lies inside the hull of A and B but meets neither.
Point(x, y) == <<x, y>>

Polysets ==
  << [box |-> [min |-> Point(0, 0), max |-> Point(1, 1)],
      pts |-> {Point(0, 0), Point(0, 1), Point(1, 1)}],
     [box |-> [min |-> Point(1, 1), max |-> Point(2, 2)],
      pts |-> {Point(1, 1), Point(2, 2), Point(1, 2)}],
     [box |-> [min |-> Point(2, 0), max |-> Point(2, 0)],
      pts |-> {Point(2, 0)}] >>

NumPrims == Len(Polysets)

\* ------------------------------------------------------------------- heap
\* CSGTerm::initBoundingBox; m is the identity for operator nodes and the
\* polyset boxes are given transformed.
initBoundingBox(h, type, left, right, prim) ==
  IF type = TYPE_PRIMITIVE
  THEN extend(extend(NullBox, Polysets[prim].box.min), Polysets[prim].box.max)
  ELSE LET leftbox == h[left].bbox
           rightbox == h[right].bbox
       IN CASE type = TYPE_UNION ->
                 extend(extend(NullBox, CwiseMin(leftbox.min, rightbox.min)),
                        CwiseMax(leftbox.max, rightbox.max))
            [] type = TYPE_INTERSECTION ->
                 extend(extend(NullBox, CwiseMax(leftbox.min, rightbox.min)),
                        CwiseMin(leftbox.max, rightbox.max))
            [] type = TYPE_DIFFERENCE ->
                 extend(extend(NullBox, leftbox.min), leftbox.max)

\* The CSGTerm constructors: the new object, with its box computed once.
CSGTerm(h, type, left, right, prim) ==
  [type |-> type, left |-> left, right |-> right, prim |-> prim,
   bbox |-> initBoundingBox(h, type, left, right, prim)]

RECURSIVE PrimHeap(_)
PrimHeap(n) ==
  IF n = 0 THEN <<>>
  ELSE Append(PrimHeap(n - 1), CSGTerm(<<>>, TYPE_PRIMITIVE, NULL, NULL, n))

\* The heap holding one primitive term per polyset, at addresses 1..NumPrims.
Primitives == PrimHeap(NumPrims)

\* A faulty variant of AbsentOperand: an absent right operand yields the left
\* operand for an Intersection too.
AbsentOperandLeftEverywhere(type, left, right) ==
  IF right = NULL THEN left
  ELSE IF type = TYPE_UNION THEN right ELSE left

\* createCSGTerm with an absent operand (its first block): the pointer it
\* returns.  Taken when right or left is NULL.
AbsentOperand(type, left, right) ==
  IF right = NULL
    THEN IF type = TYPE_UNION \/ type = TYPE_DIFFERENCE THEN left ELSE right
  ELSE IF type = TYPE_UNION THEN right ELSE left

\* A faulty variant of Pruning: a Difference with a disjoint subtrahend is
\* pruned away whole, like an Intersection.
PruningDropsDifference(type, leftbox, rightbox) ==
  LET newbox == OverlapBox(leftbox, rightbox)
  IN IF type = TYPE_INTERSECTION /\ isNull(newbox) THEN "product"
     ELSE IF type = TYPE_DIFFERENCE /\ isNull(newbox) THEN "product"
     ELSE "keep"

\* createCSGTerm's pruning of two present operands: "product" when the whole
\* Intersection goes, "negative" when the subtrahend goes, "keep" otherwise.
Pruning(type, leftbox, rightbox) ==
  LET newbox == OverlapBox(leftbox, rightbox)
  IN IF type = TYPE_INTERSECTION /\ isNull(newbox) THEN "product"
     ELSE IF type = TYPE_DIFFERENCE /\ isNull(newbox) THEN "negative"
     ELSE "keep"

\* createCSGTerm(type, left, right) for an operator type: the heap after the
\* call and the pointer it returns.
createCSGTerm(h, type, left, right) ==
  IF right = NULL \/ left = NULL
    THEN [heap |-> h, term |-> AbsentOperand(type, left, right)]
  ELSE LET pruned == Pruning(type, h[left].bbox, h[right].bbox)
       IN IF pruned = "product" THEN [heap |-> h, term |-> NULL]
          ELSE IF pruned = "negative" THEN [heap |-> h, term |-> left]
          ELSE [heap |-> Append(h, CSGTerm(h, type, left, right, 0)),
                term |-> Len(h) + 1]

\* --------------------------------------------------------- reading a term
\* What a read of the fields of *p can yield.  Through a null pointer the
\* behaviour is undefined: the build may abort (action Crash) or go on with
\* whatever the read produced, here any type and empty child pointers.
Deref(h, p) ==
  IF p # NULL THEN {h[p]}
  ELSE {[type |-> t, left |-> NULL, right |-> NULL] : t \in type_e}

\* ---------------------------------------------------------- normalize_tail
\* createCSGTerm(outer, createCSGTerm(inner, x, y), z)
Create2(h, outer, inner, x, y, z) ==
  LET i == createCSGTerm(h, inner, x, y)
  IN createCSGTerm(i.heap, outer, i.term, z)

\* createCSGTerm(outer, createCSGTerm(t1, a1, b1), createCSGTerm(t2, a2, b2));
\* the two inner calls are evaluated left first (their order only decides
\* which address each new object gets).
Create3(h, outer, t1, a1, b1, t2, a2, b2) ==
  LET i == createCSGTerm(h, t1, a1, b1)
      j == createCSGTerm(i.heap, t2, a2, b2)
  IN createCSGTerm(j.heap, outer, i.term, j.term)

Rewritten(c) == [changed |-> TRUE, heap |-> c.heap, term |-> c.term]

\* A faulty variant of Rule7Matches: the type of the node itself is not
\* tested.
Rule7MatchesAnyParent(type, lefttype) == lefttype = TYPE_DIFFERENCE

\* Rule 7's test: (x - y) * z.

Rule7Matches(type, lefttype) ==
  lefttype = TYPE_DIFFERENCE /\ type = TYPE_INTERSECTION

\* A faulty variant of Rule7: y and z are not exchanged, (x * y) - z.
Rule7KeepsOrder(h, x, y, z) ==
  Create2(h, TYPE_DIFFERENCE, TYPE_INTERSECTION, x, y, z)

\* Rule 7's rewrite: (x * z) - y.
Rule7(h, x, y, z) ==
  Create2(h, TYPE_DIFFERENCE, TYPE_INTERSECTION, x, z, y)

\* normalize_tail(term) for a non-null term, R and L being what the reads of
\* *term->right and *term->left yield: whether a rule applied, and the heap
\* and the caller's term reference afterwards.
normalize_tail(h, term, R, L) ==
  LET type == h[term].type
  IN IF type = TYPE_UNION \/ type = TYPE_PRIMITIVE
       THEN [changed |-> FALSE, heap |-> h, term |-> term]
     ELSE
       LET x == h[term].left
           y == R.left
           z == R.right
       IN \* 1.  x - (y + z) -> (x - y) - z
          IF type = TYPE_DIFFERENCE /\ R.type = TYPE_UNION
            THEN Rewritten(Create2(h, TYPE_DIFFERENCE, TYPE_DIFFERENCE, x, y, z))
          \* 2.  x * (y + z) -> (x * y) + (x * z)
          ELSE IF type = TYPE_INTERSECTION /\ R.type = TYPE_UNION
            THEN Rewritten(Create3(h, TYPE_UNION, TYPE_INTERSECTION, x, y,
                                   TYPE_INTERSECTION, x, z))
          \* 3.  x - (y * z) -> (x - y) + (x - z)
          ELSE IF type = TYPE_DIFFERENCE /\ R.type = TYPE_INTERSECTION
            THEN Rewritten(Create3(h, TYPE_UNION, TYPE_DIFFERENCE, x, y,
                                   TYPE_DIFFERENCE, x, z))
          \* 4.  x * (y * z) -> (x * y) * z
          ELSE IF type = TYPE_INTERSECTION /\ R.type = TYPE_INTERSECTION
            THEN Rewritten(Create2(h, TYPE_INTERSECTION, TYPE_INTERSECTION, x, y, z))
          \* 5.  x - (y - z) -> (x - y) + (x * z)
          ELSE IF type = TYPE_DIFFERENCE /\ R.type = TYPE_DIFFERENCE
            THEN Rewritten(Create3(h, TYPE_UNION, TYPE_DIFFERENCE, x, y,
                                   TYPE_INTERSECTION, x, z))
          \* 6.  x * (y - z) -> (x * y) - z
          ELSE IF type = TYPE_INTERSECTION /\ R.type = TYPE_DIFFERENCE
            THEN Rewritten(Create2(h, TYPE_DIFFERENCE, TYPE_INTERSECTION, x, y, z))
          ELSE
            LET x2 == L.left
                y2 == L.right
                z2 == h[term].right
            IN \* 7. (x - y) * z  -> (x * z) - y
               IF Rule7Matches(type, L.type)
                 THEN Rewritten(Rule7(h, x2, y2, z2))
               \* 8. (x + y) - z  -> (x - z) + (y - z)
               ELSE IF L.type = TYPE_UNION /\ type = TYPE_DIFFERENCE
                 THEN Rewritten(Create3(h, TYPE_UNION, TYPE_DIFFERENCE, x2, z2,
                                        TYPE_DIFFERENCE, y2, z2))
               \* 9. (x + y) * z  -> (x * z) + (y * z)
               ELSE IF L.type = TYPE_UNION /\ type = TYPE_INTERSECTION
                 THEN Rewritten(Create3(h, TYPE_UNION, TYPE_INTERSECTION, x2, z2,
                                        TYPE_INTERSECTION, y2, z2))
               ELSE [changed |-> FALSE, heap |-> h, term |-> term]

\* normalize_tail(term) reads *term->right whenever term is an Intersection
\* or a Difference, and *term->left when no rule of part A matched.
TailReadsNull(h, term, R) ==
  /\ h[term].type \in {TYPE_INTERSECTION, TYPE_DIFFERENCE}
  /\ \/ h[term].right = NULL
     \/ R.type \notin OpTypes /\ h[term].left = NULL

\* ------------------------------------------------------------------- dump
\* CSGTerm::dump, as the sequence of the pieces it writes to the stream; a
\* primitive's label is the number of its polyset.
RECURSIVE dump(_, _)
dump(h, t) ==
  LET n == h[t]
  IN IF n.type = TYPE_UNION
       THEN <<"(">> \o dump(h, n.left) \o <<" + ">> \o dump(h, n.right) \o <<")">>
     ELSE IF n.type = TYPE_INTERSECTION
       THEN <<"(">> \o dump(h, n.left) \o <<" * ">> \o dump(h, n.right) \o <<")">>
     ELSE IF n.type = TYPE_DIFFERENCE
       THEN <<"(">> \o dump(h, n.left) \o <<" - ">> \o dump(h, n.right) \o <<")">>
     ELSE <<n.prim>>

\* ----------------------------------------------------------------- import
\* CSGChain::add appends one record; CSGChain::import flattens a term.
add(c, prim, type) == Append(c, [prim |-> prim, type |-> type])

\* A faulty variant of import: the left subtree is imported with the type of
\* the node instead of the type handed down.
RECURSIVE importOwnTypeOnLeft(_, _, _, _)
importOwnTypeOnLeft(c, h, term, type) ==
  IF h[term].type = TYPE_PRIMITIVE
    THEN add(c, h[term].prim, type)
  ELSE importOwnTypeOnLeft(importOwnTypeOnLeft(c, h, h[term].left, h[term].type),
                           h, h[term].right, h[term].type)

RECURSIVE import(_, _, _, _)
import(c, h, term, type) ==
  IF h[term].type = TYPE_PRIMITIVE
    THEN add(c, h[term].prim, type)
  ELSE import(import(c, h, h[term].left, type), h, h[term].right, h[term].type)


\* ------------------------------------------------------- input expressions
\* What the front-end builds bottom-up: <<TYPE_PRIMITIVE, polyset, 0>> or
\* <<operator, left expression, right expression>>.
RECURSIVE ExprsOfSize(_)
ExprsOfSize(n) ==
  IF n = 0 THEN {<<TYPE_PRIMITIVE, i, 0>> : i \in 1..NumPrims}
  ELSE UNION {{<<t, l, r>> : t \in OpTypes, l \in ExprsOfSize(k), r \in ExprsOfSize(n - 1 - k)} :
              k \in 0..(n - 1)}

Exprs(max) == UNION {ExprsOfSize(n) : n \in 0..max}

\* The expression built with createCSGTerm, leaves first, left before right.
RECURSIVE Build(_, _)
Build(h, e) ==
  IF e[1] = TYPE_PRIMITIVE THEN [heap |-> h, term |-> e[2]]
  ELSE LET l == Build(h, e[2])
           r == Build(l.heap, e[3])
       IN createCSGTerm(r.heap, e[1], l.term, r.term)

\* -------------------------------------------------------------- semantics
\* The solid a term stands for, as the set of its points: the absent term is
\* the empty solid, a primitive the points of its polyset.
RECURSIVE Eval(_, _)
Eval(h, p) ==
  IF p = NULL THEN {}
  ELSE LET n == h[p]
       IN CASE n.type = TYPE_PRIMITIVE -> Polysets[n.prim].pts
            [] n.type = TYPE_UNION -> Eval(h, n.left) \cup Eval(h, n.right)
            [] n.type = TYPE_INTERSECTION -> Eval(h, n.left) \cap Eval(h, n.right)
            [] n.type = TYPE_DIFFERENCE -> Eval(h, n.left) \ Eval(h, n.right)

\* ------------------------------------------------------------------ state
VARIABLES
  heap,        \* the CSGTerm objects
  root,        \* the term the front-end built (NULL when it was pruned away)
  eval0,       \* the points of the solid that root stood for when it was built
  phase,       \* "ready", "running", "done", "crashed"; "build" and "chain"
  stack,       \* the active calls of normalize, the innermost last
  result,      \* what the outermost normalize returned
  round,       \* 1 for normalize(root), 2 for normalize(result)
  steps,       \* the steps the outermost call of normalize has taken
  derefNull,   \* a null pointer has been dereferenced
  dump1,       \* the dump of the first result, taken before the second round
  lastCreate,  \* the last createCSGTerm call of the front-end and its return
  chain,       \* the records of the CSGChain
  lastImport   \* the last CSGChain::import call and the chain before it

vars == <<heap, root, eval0, phase, stack, result, round, steps, derefNull, dump1,
          lastCreate, chain, lastImport>>

NoCall == [type |-> TYPE_PRIMITIVE, left |-> NULL, right |-> NULL, term |-> NULL, n |-> 0]

NoImport == [term |-> NULL, type |-> TYPE_PRIMITIVE, before |-> <<>>, n |-> 0]

Top == stack[Len(stack)]

Frame(term, pc) == [term |-> term, pc |-> pc]

SetTop(f) == [stack EXCEPT ![Len(stack)] = f]

\* ------------------------------------------------------------- normalize
Init ==
  /\ \E e \in Exprs(MaxOps) :
       LET b == Build(Primitives, e)
       IN heap = b.heap /\ root = b.term /\ eval0 = Eval(b.heap, b.term)
  /\ phase = "ready"
  /\ stack = <<>>
  /\ result = NULL
  /\ round = 1
  /\ steps = 0
  /\ derefNull = FALSE
  /\ dump1 = <<>>
  /\ lastCreate = NoCall
  /\ chain = <<>>
  /\ lastImport = NoImport

\* The front-end calls normalize on the term it built.
Normalize ==
  /\ phase = "ready"
  /\ root # NULL
  /\ phase' = "running"
  /\ stack' = <<Frame(root, "entry")>>
  /\ steps' = 0
  /\ UNCHANGED <<heap, root, eval0, result, round, derefNull, dump1, lastCreate, chain, lastImport>>

\* `return v` of the innermost call: the outermost call hands v to the
\* front-end, an inner one resumes its caller at the assignment
\* term->left = normalize(term->left) or term->right = normalize(term->right).
Return(v) ==
  IF Len(stack) = 1
    THEN /\ phase' = "done"
         /\ result' = v
         /\ stack' = <<>>
         /\ heap' = heap
  ELSE LET caller == stack[Len(stack) - 1]
           rest == SubSeq(stack, 1, Len(stack) - 2)
       IN /\ phase' = phase
          /\ result' = result
          /\ IF caller.pc = "left"
               THEN /\ heap' = [heap EXCEPT ![caller.term].left = v]
                    /\ stack' = Append(rest, Frame(caller.term, "guard"))
               ELSE /\ heap' = [heap EXCEPT ![caller.term].right = v]
                    /\ stack' = Append(rest, Frame(caller.term, "collapse"))

\* if (term->type == TYPE_PRIMITIVE) return term;
Entry ==
  /\ phase = "running"
  /\ steps < MaxSteps
  /\ steps' = steps + 1
  /\ Top.pc = "entry"
  /\ \E T \in Deref(heap, Top.term) :
       IF T.type = TYPE_PRIMITIVE
         THEN Return(Top.term)
         ELSE /\ stack' = SetTop(Frame(Top.term, "tail"))
              /\ UNCHANGED <<heap, phase, result>>
  /\ derefNull' = (derefNull \/ Top.term = NULL)
  /\ UNCHANGED <<root, eval0, round, dump1, lastCreate, chain, lastImport>>

\* One iteration of while (term && normalize_tail(term)) { } that rewrote.
TailRewrite ==
  /\ phase = "running"
  /\ steps < MaxSteps
  /\ steps' = steps + 1
  /\ Top.pc = "tail"
  /\ Top.term # NULL
  /\ \E R \in Deref(heap, heap[Top.term].right), L \in Deref(heap, heap[Top.term].left) :
       LET t == normalize_tail(heap, Top.term, R, L)
       IN /\ t.changed
          /\ heap' = t.heap
          /\ stack' = SetTop(Frame(t.term, "tail"))
          /\ derefNull' = (derefNull \/ TailReadsNull(heap, Top.term, R))
  /\ UNCHANGED <<root, eval0, phase, result, round, dump1, lastCreate, chain, lastImport>>

\* The while loop ends (term is null or no rule applied); then
\* if (!term || term->type == TYPE_PRIMITIVE) return term; and the call
\* normalize(term->left).
TailDone ==
  /\ phase = "running"
  /\ steps < MaxSteps
  /\ steps' = steps + 1
  /\ Top.pc = "tail"
  /\ IF Top.term = NULL
       THEN /\ Return(NULL)
            /\ derefNull' = derefNull
     ELSE \E R \in Deref(heap, heap[Top.term].right), L \in Deref(heap, heap[Top.term].left) :
            /\ ~normalize_tail(heap, Top.term, R, L).changed
            /\ derefNull' = (derefNull \/ TailReadsNull(heap, Top.term, R))
            /\ IF heap[Top.term].type = TYPE_PRIMITIVE
                 THEN Return(Top.term)
                 ELSE /\ stack' = Append(SetTop(Frame(Top.term, "left")),
                                         Frame(heap[Top.term].left, "entry"))
                      /\ UNCHANGED <<heap, phase, result>>
  /\ UNCHANGED <<root, eval0, round, dump1, lastCreate, chain, lastImport>>

\* } while (term->type != TYPE_UNION &&
\*          (term->right->type != TYPE_PRIMITIVE || term->left->type == TYPE_UNION));
\* and, when the loop ends, the call normalize(term->right).
\* A faulty variant of LoopAgain: a Union left child does not restart the
\* loop.
LoopAgainIgnoringLeft(type, righttype, lefttype) ==
  type # TYPE_UNION /\ righttype # TYPE_PRIMITIVE

\* The condition of the do-while loop of normalize.
LoopAgain(type, righttype, lefttype) ==
  type # TYPE_UNION /\ (righttype # TYPE_PRIMITIVE \/ lefttype = TYPE_UNION)

GuardReadsNull(h, term, R) ==
  /\ h[term].type # TYPE_UNION
  /\ \/ h[term].right = NULL
     \/ R.type = TYPE_PRIMITIVE /\ h[term].left = NULL

Guard ==
  /\ phase = "running"
  /\ steps < MaxSteps
  /\ steps' = steps + 1
  /\ Top.pc = "guard"
  /\ \E R \in Deref(heap, heap[Top.term].right), L \in Deref(heap, heap[Top.term].left) :
       /\ IF LoopAgain(heap[Top.term].type, R.type, L.type)
            THEN stack' = SetTop(Frame(Top.term, "tail"))
            ELSE stack' = Append(SetTop(Frame(Top.term, "right")),
                                 Frame(heap[Top.term].right, "entry"))
       /\ derefNull' = (derefNull \/ GuardReadsNull(heap, Top.term, R))
  /\ UNCHANGED <<heap, root, eval0, phase, result, round, dump1, lastCreate, chain, lastImport>>

\* The null-child collapse at the end of normalize, and its return.
Collapsed(h, term) ==
  IF h[term].right = NULL
    THEN IF h[term].type = TYPE_UNION \/ h[term].type = TYPE_DIFFERENCE
           THEN h[term].left ELSE h[term].right
  ELSE IF h[term].left = NULL
    THEN IF h[term].type = TYPE_UNION THEN h[term].right ELSE h[term].left
  ELSE term

Collapse ==
  /\ phase = "running"
  /\ steps < MaxSteps
  /\ steps' = steps + 1
  /\ Top.pc = "collapse"
  /\ Return(Collapsed(heap, Top.term))
  /\ UNCHANGED <<root, eval0, round, derefNull, dump1, lastCreate, chain, lastImport>>

\* A read through a null pointer aborts the program.
ReadsNull ==
  /\ phase = "running"
  /\ \/ Top.pc = "entry" /\ Top.term = NULL
     \/ /\ Top.pc = "tail"
        /\ Top.term # NULL
        /\ \E R \in Deref(heap, heap[Top.term].right) : TailReadsNull(heap, Top.term, R)
     \/ /\ Top.pc = "guard"
        /\ \E R \in Deref(heap, heap[Top.term].right) : GuardReadsNull(heap, Top.term, R)

Crash ==
  /\ ReadsNull
  /\ phase' = "crashed"
  /\ derefNull' = TRUE
  /\ UNCHANGED <<heap, root, eval0, stack, result, round, steps, dump1, lastCreate, chain, lastImport>>

\* The front-end normalizes the term it got back a second time.
Renormalize ==
  /\ phase = "done"
  /\ round = 1
  /\ result # NULL
  /\ round' = 2
  /\ phase' = "running"
  /\ stack' = <<Frame(result, "entry")>>
  /\ steps' = 0
  /\ dump1' = dump(heap, result)
  /\ UNCHANGED <<heap, root, eval0, result, derefNull, lastCreate, chain, lastImport>>

Next ==
  \/ Normalize
  \/ Entry
  \/ TailRewrite
  \/ TailDone
  \/ Guard
  \/ Collapse
  \/ Crash
  \/ Renormalize

Spec == Init /\ [][Next]_vars


\* ---------------------------------------------------------- construction
\* The front-end alone: createCSGTerm on any two terms it holds, or none.
InitCreate ==
  /\ eval0 = {}
  /\ heap = Primitives
  /\ root = NULL
  /\ phase = "build"
  /\ stack = <<>>
  /\ result = NULL
  /\ round = 1
  /\ steps = 0
  /\ derefNull = FALSE
  /\ dump1 = <<>>
  /\ lastCreate = NoCall
  /\ chain = <<>>
  /\ lastImport = NoImport

Create ==
  /\ phase = "build"
  /\ Len(heap) < NumPrims + MaxBuild
  /\ \E type \in OpTypes, left \in 0..Len(heap), right \in 0..Len(heap) :
       LET c == createCSGTerm(heap, type, left, right)
       IN /\ heap' = c.heap
          /\ lastCreate' = [type |-> type, left |-> left, right |-> right,
                            term |-> c.term, n |-> Len(heap)]
  /\ UNCHANGED <<root, eval0, phase, stack, result, round, steps, derefNull, dump1, chain, lastImport>>

NextCreate == Create

SpecCreate == InitCreate /\ [][NextCreate]_vars

\* ------------------------------------------------------------- flattening
\* A chain and a tree with no absent children, imported into it.
InitChain ==
  /\ \E e \in Exprs(MaxImportOps) :
       LET b == Build(Primitives, e)
       IN heap = b.heap /\ root = b.term /\ eval0 = Eval(b.heap, b.term)
  /\ phase = "chain"
  /\ stack = <<>>
  /\ result = NULL
  /\ round = 1
  /\ steps = 0
  /\ derefNull = FALSE
  /\ dump1 = <<>>
  /\ lastCreate = NoCall
  /\ chain = <<>>
  /\ lastImport = NoImport

Import ==
  /\ phase = "chain"
  /\ root # NULL
  /\ lastImport.n < MaxImports
  /\ \E type \in type_e :
       /\ chain' = import(chain, heap, root, type)
       /\ lastImport' = [term |-> root, type |-> type, before |-> chain,
                         n |-> lastImport.n + 1]
  /\ UNCHANGED <<heap, root, eval0, phase, stack, result, round, steps, derefNull, dump1, lastCreate>>

NextChain == Import

SpecChain == InitChain /\ [][NextChain]_vars


\* ================================================================= claims
\* The terms reachable from p, and those reachable without passing through
\* a Union.
RECURSIVE Reach(_, _)
Reach(h, p) ==
  IF p = NULL THEN {}
  ELSE IF h[p].type = TYPE_PRIMITIVE THEN {p}
  ELSE {p} \cup Reach(h, h[p].left) \cup Reach(h, h[p].right)

RECURSIVE ReachNoUnion(_, _)
ReachNoUnion(h, p) ==
  IF p = NULL THEN {}
  ELSE IF h[p].type \in {TYPE_UNION, TYPE_PRIMITIVE} THEN {p}
  ELSE {p} \cup ReachNoUnion(h, h[p].left) \cup ReachNoUnion(h, h[p].right)

\* normalize is about to call normalize_tail on a non-null term.
AtTail == phase = "running" /\ Top.pc = "tail" /\ Top.term # NULL

\* The operator nodes of the heap with both children present.
FullNodes(h) ==
  {p \in 1..Len(h) : h[p].type # TYPE_PRIMITIVE /\ h[p].left # NULL /\ h[p].right # NULL}

\* C1: whenever normalize returns, the returned term stands for the same set
\* of points as the term that was built; and each rewrite of normalize_tail,
\* the pruning of its createCSGTerm calls included, maps the term it is
\* applied to to one that stands for the same set of points.
SemanticsPreserved ==
  /\ phase = "done" => Eval(heap, result) = eval0
  /\ AtTail =>
       \A R \in Deref(heap, heap[Top.term].right), L \in Deref(heap, heap[Top.term].left) :
         LET t == normalize_tail(heap, Top.term, R, L)
         IN t.changed => Eval(t.heap, t.term) = Eval(heap, Top.term)

\* C1 witness: normalize returned a rewritten, non-empty term.
SemanticsPreservedWitness ==
  /\ phase = "done"
  /\ round = 1
  /\ result \notin {NULL, root}
  /\ eval0 # {}
  /\ heap[result].type = TYPE_DIFFERENCE
  /\ Eval(heap, result) = eval0

\* C2: normalize never reads the type or a child of an absent term.
NeverReadsAbsentTerm == ~derefNull

\* C3: in the term normalize returns, every node reachable from the root
\* without passing through a Union is a Union (or a leaf), or has a Primitive
\* right child and a left child that is not a Union.
ShapeHolds(h, p) ==
  \/ h[p].type \in {TYPE_UNION, TYPE_PRIMITIVE}
  \/ /\ h[p].right # NULL
     /\ h[p].left # NULL
     /\ h[h[p].right].type = TYPE_PRIMITIVE
     /\ h[h[p].left].type # TYPE_UNION

NormalFormShape ==
  (phase = "done" /\ result # NULL) =>
    \A p \in ReachNoUnion(heap, result) : ShapeHolds(heap, p)

\* C3 witness: a returned Intersection or Difference over another one.
NormalFormShapeWitness ==
  /\ phase = "done"
  /\ result # NULL
  /\ heap[result].type \in {TYPE_INTERSECTION, TYPE_DIFFERENCE}
  /\ heap[result].left # NULL
  /\ heap[heap[result].left].type \in {TYPE_INTERSECTION, TYPE_DIFFERENCE}
  /\ Len(heap) > Len(Primitives) + MaxOps

\* C4: normalizing the result of normalize again leaves its dump unchanged.
NormalizeIdempotent ==
  (phase = "done" /\ round = 2) => (result # NULL /\ dump(heap, result) = dump1)

\* C5: createCSGTerm with an absent operand returns the present operand itself
\* (no new node) for Union and for Difference with its right operand absent,
\* and the absent term otherwise; with both absent it returns absent.
IdentityLaws ==
  LET c == lastCreate
  IN (c.n > 0 /\ (c.left = NULL \/ c.right = NULL)) =>
       /\ Len(heap) = c.n
       /\ (c.left # NULL /\ c.type \in {TYPE_UNION, TYPE_DIFFERENCE}) => c.term = c.left
       /\ (c.left # NULL /\ c.type = TYPE_INTERSECTION) => c.term = NULL
       /\ (c.right # NULL /\ c.type = TYPE_UNION) => c.term = c.right
       /\ (c.right # NULL /\ c.type \in {TYPE_INTERSECTION, TYPE_DIFFERENCE}) => c.term = NULL
       /\ (c.left = NULL /\ c.right = NULL) => c.term = NULL

\* C5 witness: an Intersection of an operator node with the absent term.
IdentityLawsWitness ==
  /\ lastCreate.n > 0
  /\ lastCreate.type = TYPE_INTERSECTION
  /\ lastCreate.right = NULL
  /\ lastCreate.left > NumPrims
  /\ lastCreate.term = NULL

\* Two boxes with an empty overlap: in some axis the larger of the mins
\* exceeds the smaller of the maxes.
EmptyOverlap(a, b) ==
  \E i \in DOMAIN a.min :
    (IF a.min[i] > b.min[i] THEN a.min[i] ELSE b.min[i]) >
      (IF a.max[i] < b.max[i] THEN a.max[i] ELSE b.max[i])

\* createCSGTerm returned a new node of the kind asked for, over the operands.
NewNode(c) ==
  /\ Len(heap) = c.n + 1
  /\ c.term = c.n + 1
  /\ heap[c.term].type = c.type
  /\ heap[c.term].left = c.left
  /\ heap[c.term].right = c.right

\* C6: for two present operands, when their cached boxes have an empty
\* overlap an Intersection is absent and a Difference is its left operand
\* itself; a Union, and an Intersection or a Difference of overlapping
\* operands, is a new node of that kind over the two operands.
BoundingBoxPruning ==
  LET c == lastCreate
  IN (c.n > 0 /\ c.left # NULL /\ c.right # NULL) =>
       LET empty == EmptyOverlap(heap[c.left].bbox, heap[c.right].bbox)
       IN /\ (c.type = TYPE_INTERSECTION /\ empty) => (c.term = NULL /\ Len(heap) = c.n)
          /\ (c.type = TYPE_DIFFERENCE /\ empty) => (c.term = c.left /\ Len(heap) = c.n)
          /\ c.type = TYPE_UNION => NewNode(c)
          /\ ~empty => NewNode(c)

\* C6 witness: a Difference whose subtrahend was pruned away, the left
\* operand being an operator node.
BoundingBoxPruningWitness ==
  /\ lastCreate.n > 0
  /\ lastCreate.type = TYPE_DIFFERENCE
  /\ lastCreate.left > NumPrims
  /\ lastCreate.right # NULL
  /\ EmptyOverlap(heap[lastCreate.left].bbox, heap[lastCreate.right].bbox)
  /\ lastCreate.term = lastCreate.left

\* The leaves of a tree as paths from its root ("L", "R"), left to right.
RECURSIVE LeafPaths(_, _)
LeafPaths(h, t) ==
  IF h[t].type = TYPE_PRIMITIVE THEN << <<>> >>
  ELSE LET ls == LeafPaths(h, h[t].left)
           rs == LeafPaths(h, h[t].right)
       IN [i \in 1..Len(ls) |-> <<"L">> \o ls[i]] \o [i \in 1..Len(rs) |-> <<"R">> \o rs[i]]

RECURSIVE NodeAt(_, _, _)
NodeAt(h, t, path) ==
  IF path = <<>> THEN t
  ELSE NodeAt(h, IF Head(path) = "L" THEN h[t].left ELSE h[t].right, Tail(path))

\* The tag of the leaf at path: the kind given to import when the path never
\* goes right, else the type of the node where it last goes right.
LeafTag(h, t, kind, path) ==
  LET rights == {i \in 1..Len(path) : path[i] = "R"}
  IN IF rights = {} THEN kind
     ELSE LET last == CHOOSE i \in rights : \A j \in rights : j <= i
          IN h[NodeAt(h, t, SubSeq(path, 1, last - 1))].type

ExpectedRecords(h, t, kind) ==
  LET paths == LeafPaths(h, t)
  IN [i \in 1..Len(paths) |->
        [prim |-> h[NodeAt(h, t, paths[i])].prim, type |-> LeafTag(h, t, kind, paths[i])]]

\* C7: import appends one record per leaf of the tree, left to right, tagged
\* as LeafTag says, and leaves the records already in the chain as they were.
ImportFlattens ==
  lastImport.n > 0 =>
    chain = lastImport.before \o ExpectedRecords(heap, lastImport.term, lastImport.type)

\* C7 witness: Union(x, Difference(y, z)) imported with kind Union into a
\* chain that already holds records.
ImportFlattensWitness ==
  /\ lastImport.n > 0
  /\ lastImport.before # <<>>
  /\ lastImport.type = TYPE_UNION
  /\ LET t == heap[lastImport.term]
     IN /\ t.type = TYPE_UNION
        /\ heap[t.left].type = TYPE_PRIMITIVE
        /\ heap[t.right].type = TYPE_DIFFERENCE
        /\ heap[heap[t.right].left].type = TYPE_PRIMITIVE
        /\ heap[heap[t.right].right].type = TYPE_PRIMITIVE
        /\ SubSeq(chain, Len(chain) - 2, Len(chain)) =
             << [prim |-> heap[t.left].prim, type |-> TYPE_UNION],
                [prim |-> heap[heap[t.right].left].prim, type |-> TYPE_UNION],
                [prim |-> heap[heap[t.right].right].prim, type |-> TYPE_DIFFERENCE] >>

\* C8: every operator node reachable from the input term or from the result
\* has, whenever both its children are present, the box the construction
\* rule computes from the boxes of its current children.
BoxConsistent(h, p) ==
  \/ h[p].type = TYPE_PRIMITIVE
  \/ h[p].left = NULL
  \/ h[p].right = NULL
  \/ h[p].bbox = initBoundingBox(h, h[p].type, h[p].left, h[p].right, 0)

BoundingBoxConsistent ==
  \A p \in Reach(heap, root) \cup Reach(heap, result) : BoxConsistent(heap, p)

\* C9: a call of normalize returns: it never aborts, and while it runs it
\* has taken fewer than MaxSteps steps.
NormalizeReturns ==
  /\ phase # "crashed"
  /\ phase = "running" => steps < MaxSteps

\* What holds of C9 as long as no absent term has been read.
ReturnsUnlessAbsentTermRead ==
  (phase = "running" /\ ~derefNull) => steps < MaxSteps

\* normalize_tail(p) reports no rewrite and leaves the term reference alone.
TailLeavesAlone(h, p) ==
  \A R \in Deref(h, h[p].right), L \in Deref(h, h[p].left) :
    normalize_tail(h, p, R, L) = [changed |-> FALSE, heap |-> h, term |-> p]

\* C10 as stated: normalize_tail reports no rewrite for every Primitive, every
\* Union, and every Intersection or Difference whose right child is a
\* Primitive, whatever its left child.
NoRuleForPrimitiveRight ==
  (/\ AtTail
   /\ \/ heap[Top.term].type \in {TYPE_PRIMITIVE, TYPE_UNION}
      \/ Top.term \in FullNodes(heap) /\ heap[heap[Top.term].right].type = TYPE_PRIMITIVE)
  => TailLeavesAlone(heap, Top.term)

\* C10 as amended: ... and every Intersection or Difference whose right child
\* is a Primitive and whose left child is a Primitive, an Intersection or,
\* under a Difference, a Difference.
NoRuleMatches(h, p) ==
  /\ h[h[p].right].type = TYPE_PRIMITIVE
  /\ \/ h[h[p].left].type \in {TYPE_PRIMITIVE, TYPE_INTERSECTION}
     \/ h[h[p].left].type = TYPE_DIFFERENCE /\ h[p].type = TYPE_DIFFERENCE

NoRuleForSettledNodes ==
  (/\ AtTail
   /\ \/ heap[Top.term].type \in {TYPE_PRIMITIVE, TYPE_UNION}
      \/ Top.term \in FullNodes(heap) /\ NoRuleMatches(heap, Top.term))
  => TailLeavesAlone(heap, Top.term)

\* C10 witness: normalize_tail is called on a Difference of a Difference and
\* a Primitive, and leaves it alone.
NoRuleForSettledNodesWitness ==
  /\ AtTail
  /\ Top.term \in FullNodes(heap)
  /\ heap[Top.term].type = TYPE_DIFFERENCE
  /\ heap[heap[Top.term].left].type = TYPE_DIFFERENCE
  /\ heap[heap[Top.term].right].type = TYPE_PRIMITIVE
  /\ TailLeavesAlone(heap, Top.term)

=============================================================================
